---- MODULE Spec2Model ----
(***************************************************************************)
(* Model of utils.async: RWLock (lock.py), WaitGroup and                   *)
(* CancellableWaitGroup (waitgroup.py), running on one asyncio event loop. *)
(*                                                                         *)
(* A coroutine runs without interruption until it awaits something that    *)
(* is not ready.  asyncio.Event.wait() returns at once when the flag is    *)
(* set; otherwise the caller is parked on a future.  Event.set() resolves  *)
(* the futures of every parked waiter, which makes those tasks ready; a    *)
(* ready task continues right after its await when the loop runs it, and   *)
(* does not look at the flag again.                                        *)
(***************************************************************************)
EXTENDS Integers, FiniteSets

NumTasks == 3
MaxReaders == 3
MaxCounter == 5
MaxDelta == 3
MaxHandles == 3
MaxCancels == 1
Tasks == 1..NumTasks
Handles == 1..MaxHandles
Deltas == (0 - MaxDelta)..MaxDelta

VARIABLES
    wevent,         \* RWLock.__wevent flag: set when no writer holds or waits
    revent,         \* RWLock.__revent flag: set when there is no reader
    readers_count,  \* RWLock.__readers_count
    counter,        \* WaitGroup._counter
    wait_event,     \* WaitGroup._wait_event flag
    tasks,          \* CancellableWaitGroup._tasks
    hstate,         \* each task handle (asyncio.Future): its life cycle
    cbs,            \* each handle: state of its _cb_internal done-callback
    cancel_sent,    \* each handle: number of cancel() calls it received
    pc,             \* where each task stands
    last            \* the latest call or resumption and how it ended

lockState == <<wevent, revent, readers_count>>
groupState == <<counter, wait_event, tasks>>
handleState == <<hstate, cbs, cancel_sent>>
vars == <<wevent, revent, readers_count, counter, wait_event, tasks,
          hstate, cbs, cancel_sent, pc, last>>

\* Positions of a task.  r_wait/w_wait: parked on __wevent/__revent;
\* r_woken/w_woken: its future was resolved and it has not run yet.
\* wg_wait/wg_woken: the same for WaitGroup._wait_event.
Suspended == {"r_wait", "r_woken", "w_wait", "w_woken", "wg_wait", "wg_woken"}

Runnable(t) == pc[t] \notin Suspended

\* What a call was and how it ended: "returned", "suspended" (parked),
\* "resumed" (continued after its await and returned), or the error raised.
\* arg is the delta of add or the handle given to add_async; value is the
\* number an error reports or the handle add_async returns.
CallV(o, t, a, r, v) == [op |-> o, task |-> t, arg |-> a, result |-> r, value |-> v]
Call(o, t, r) == CallV(o, t, 0, r, 0)

\* asyncio.Event.set(): every task parked in `waiting` becomes ready.
Wake(f, waiting, woken) ==
    [u \in Tasks |-> IF f[u] = waiting THEN woken ELSE f[u]]

Init ==
    /\ wevent = TRUE
    /\ revent = TRUE
    /\ readers_count = 0
    /\ counter = 0
    /\ wait_event = TRUE
    /\ tasks = {}
    /\ hstate = [h \in Handles |-> "unused"]
    /\ cbs = [h \in Handles |-> "none"]
    /\ cancel_sent = [h \in Handles |-> 0]
    /\ pc = [t \in Tasks |-> "idle"]
    /\ last = Call("none", 0, "none")

\* Variant of r_lock_enter: the reader is counted only when it is the first.
r_lock_enter_firstOnly(t) ==
    /\ readers_count' = IF revent THEN readers_count + 1 ELSE readers_count
    /\ revent' = IF revent THEN FALSE ELSE revent
    /\ pc' = [pc EXCEPT ![t] = "reading"]

\* Variant of r_lock_enter: __revent is left set.
r_lock_enter_noClear(t) ==
    /\ readers_count' = readers_count + 1
    /\ revent' = revent
    /\ pc' = [pc EXCEPT ![t] = "reading"]

\* r_lock after the await: count the reader, clear __revent.
r_lock_enter(t) ==
    /\ readers_count' = readers_count + 1
    /\ revent' = IF revent THEN FALSE ELSE revent
    /\ pc' = [pc EXCEPT ![t] = "reading"]

\* Variant of r_lock: the writer gate is not awaited.
r_lock_noWait(t) ==
    /\ Runnable(t)
    /\ readers_count' = readers_count + 1
    /\ revent' = IF revent THEN FALSE ELSE revent
    /\ pc' = [pc EXCEPT ![t] = "reading"]
    /\ last' = Call("r_lock", t, "returned")
    /\ UNCHANGED <<wevent, groupState, handleState>>

r_lock(t) ==
    /\ Runnable(t)
    /\ IF wevent
         THEN /\ r_lock_enter(t)
              /\ last' = Call("r_lock", t, "returned")
         ELSE /\ pc' = [pc EXCEPT ![t] = "r_wait"]
              /\ last' = Call("r_lock", t, "suspended")
              /\ UNCHANGED <<readers_count, revent>>
    /\ UNCHANGED <<wevent, groupState, handleState>>

\* Variant of lock: the closed gate is not refused.
lock_noCheck(t) ==
    /\ Runnable(t)
    /\ wevent' = FALSE
    /\ IF revent
         THEN /\ pc' = [pc EXCEPT ![t] = "writing"]
              /\ last' = Call("lock", t, "returned")
         ELSE /\ pc' = [pc EXCEPT ![t] = "w_wait"]
              /\ last' = Call("lock", t, "suspended")
    /\ UNCHANGED <<revent, readers_count, groupState, handleState>>

\* Variant of lock: the refused call opens the gate again.
lock_resetOnError(t) ==
    /\ Runnable(t)
    /\ IF ~wevent
         THEN /\ wevent' = TRUE
              /\ last' = Call("lock", t, "RuntimeError")
              /\ UNCHANGED pc
         ELSE /\ wevent' = FALSE
              /\ IF revent
                   THEN /\ pc' = [pc EXCEPT ![t] = "writing"]
                        /\ last' = Call("lock", t, "returned")
                   ELSE /\ pc' = [pc EXCEPT ![t] = "w_wait"]
                        /\ last' = Call("lock", t, "suspended")
    /\ UNCHANGED <<revent, readers_count, groupState, handleState>>

lock(t) ==
    /\ Runnable(t)
    /\ IF ~wevent
         THEN /\ last' = Call("lock", t, "RuntimeError")
              /\ UNCHANGED <<wevent, pc>>
         ELSE /\ wevent' = FALSE
              /\ IF revent
                   THEN /\ pc' = [pc EXCEPT ![t] = "writing"]
                        /\ last' = Call("lock", t, "returned")
                   ELSE /\ pc' = [pc EXCEPT ![t] = "w_wait"]
                        /\ last' = Call("lock", t, "suspended")
    /\ UNCHANGED <<revent, readers_count, groupState, handleState>>

\* Variant of r_unlock: the count is not checked before it is lowered.
r_unlock_noCheck(t) ==
    /\ Runnable(t)
    /\ readers_count' = readers_count - 1
    /\ IF readers_count - 1 = 0
         THEN /\ revent' = TRUE
              /\ pc' = Wake([pc EXCEPT ![t] = "idle"], "w_wait", "w_woken")
         ELSE /\ pc' = [pc EXCEPT ![t] = "idle"]
              /\ UNCHANGED revent
    /\ last' = Call("r_unlock", t, "returned")
    /\ UNCHANGED <<wevent, groupState, handleState>>

\* Variant of r_unlock: __revent is not set when the last reader leaves.
r_unlock_noSet(t) ==
    /\ Runnable(t)
    /\ IF readers_count = 0
         THEN /\ last' = Call("r_unlock", t, "RuntimeError")
              /\ UNCHANGED <<readers_count, pc>>
         ELSE /\ readers_count' = readers_count - 1
              /\ pc' = [pc EXCEPT ![t] = "idle"]
              /\ last' = Call("r_unlock", t, "returned")
    /\ UNCHANGED <<wevent, revent, groupState, handleState>>

r_unlock(t) ==
    /\ Runnable(t)
    /\ IF readers_count = 0
         THEN /\ last' = Call("r_unlock", t, "RuntimeError")
              /\ UNCHANGED <<readers_count, revent, pc>>
         ELSE /\ readers_count' = readers_count - 1
              /\ IF readers_count - 1 = 0
                   THEN /\ revent' = TRUE
                        /\ pc' = Wake([pc EXCEPT ![t] = "idle"], "w_wait", "w_woken")
                   ELSE /\ pc' = [pc EXCEPT ![t] = "idle"]
                        /\ UNCHANGED revent
              /\ last' = Call("r_unlock", t, "returned")
    /\ UNCHANGED <<wevent, groupState, handleState>>

\* Variant of unlock: only one of the parked readers is made ready.
unlock_wakeOne(t) ==
    /\ Runnable(t)
    /\ wevent' = TRUE
    /\ pc' = [u \in Tasks |->
                IF u = t THEN "idle"
                ELSE IF pc[u] = "r_wait" /\ \A v \in Tasks : (v < u /\ v # t) => pc[v] # "r_wait"
                       THEN "r_woken" ELSE pc[u]]
    /\ last' = Call("unlock", t, "returned")
    /\ UNCHANGED <<revent, readers_count, groupState, handleState>>

unlock(t) ==
    /\ Runnable(t)
    /\ wevent' = TRUE
    /\ pc' = Wake([pc EXCEPT ![t] = "idle"], "r_wait", "r_woken")
    /\ last' = Call("unlock", t, "returned")
    /\ UNCHANGED <<revent, readers_count, groupState, handleState>>

\* The loop runs a ready task: it continues after its await.
Resume(t) ==
    /\ pc[t] \in {"r_woken", "w_woken"}
    /\ IF pc[t] = "r_woken"
         THEN /\ r_lock_enter(t)
              /\ last' = Call("r_lock", t, "resumed")
         ELSE /\ pc' = [pc EXCEPT ![t] = "writing"]
              /\ last' = Call("lock", t, "resumed")
              /\ UNCHANGED <<readers_count, revent>>
    /\ UNCHANGED <<wevent, groupState, handleState>>

\* Tasks that use the lock in matched, non-nested pairs.
Next ==
    \E t \in Tasks :
        \/ pc[t] = "idle" /\ r_lock(t)
        \/ pc[t] = "reading" /\ r_unlock(t)
        \/ pc[t] = "idle" /\ lock(t)
        \/ pc[t] = "writing" /\ unlock(t)
        \/ Resume(t)

Spec == Init /\ [][Next]_vars

\* A holder ends its cycle.
ReadRelease(t) == pc[t] = "reading" /\ r_unlock(t)
WriteRelease(t) == pc[t] = "writing" /\ unlock(t)

\* The loop runs every ready task.
SchedulerFair == \A t \in Tasks : WF_vars(Resume(t))

\* Fair scheduler; nothing is assumed of the tasks.
SpecSched == Spec /\ SchedulerFair

\* Fair scheduler, and every task that holds the lock releases it.
SpecLive ==
    /\ Spec
    /\ SchedulerFair
    /\ \A t \in Tasks : WF_vars(ReadRelease(t)) /\ WF_vars(WriteRelease(t))

\* Fair scheduler, and every reader but one releases: LateReader may keep
\* the read lock for ever once it has it.
LateReader == NumTasks
SpecLate ==
    /\ Spec
    /\ SchedulerFair
    /\ \A t \in Tasks \ {LateReader} : WF_vars(ReadRelease(t))

\* Tasks that call the four operations in any order.
NextAny ==
    \E t \in Tasks :
        \/ readers_count < MaxReaders /\ r_lock(t)
        \/ r_unlock(t)
        \/ lock(t)
        \/ unlock(t)
        \/ Resume(t)

SpecAny == Init /\ [][NextAny]_vars

(***************************************************************************)
(* WaitGroup                                                               *)
(***************************************************************************)

\* Variant of AddTo: the error reports the counter before the change.
AddTo_reportOld(o, delta) ==
    /\ counter' = counter + delta
    /\ IF counter + delta < 0
         THEN /\ last' = CallV(o, 0, delta, "RuntimeError", counter)
              /\ UNCHANGED <<wait_event, pc>>
         ELSE /\ IF counter + delta = 0 /\ ~wait_event
                   THEN /\ wait_event' = TRUE
                        /\ pc' = Wake(pc, "wg_wait", "wg_woken")
                   ELSE UNCHANGED <<wait_event, pc>>
              /\ last' = CallV(o, 0, delta, "returned", 0)

\* The body of add: the counter is changed first, then checked.  The error
\* reports the counter as it then stands.
AddTo(o, delta) ==
    /\ counter' = counter + delta
    /\ IF counter + delta < 0
         THEN /\ last' = CallV(o, 0, delta, "RuntimeError", counter + delta)
              /\ UNCHANGED <<wait_event, pc>>
         ELSE /\ IF counter + delta = 0 /\ ~wait_event
                   THEN /\ wait_event' = TRUE
                        /\ pc' = Wake(pc, "wg_wait", "wg_woken")
                   ELSE UNCHANGED <<wait_event, pc>>
              /\ last' = CallV(o, 0, delta, "returned", 0)

add(delta) ==
    /\ AddTo("add", delta)
    /\ UNCHANGED <<lockState, tasks, handleState>>

done ==
    /\ AddTo("done", 0 - 1)
    /\ UNCHANGED <<lockState, tasks, handleState>>

\* __enter__ is add(1), __exit__ is done().
wg_enter ==
    /\ AddTo("__enter__", 1)
    /\ UNCHANGED <<lockState, tasks, handleState>>

wg_exit ==
    /\ AddTo("__exit__", 0 - 1)
    /\ UNCHANGED <<lockState, tasks, handleState>>

\* One step of task t in wait(): the call, or its continuation once woken.
wait(t) ==
    /\ pc[t] \in {"idle", "wg_woken"}
    /\ IF pc[t] = "wg_woken"
         THEN /\ pc' = [pc EXCEPT ![t] = "idle"]
              /\ last' = Call("wait", t, "resumed")
         ELSE IF ~wait_event
                THEN /\ pc' = [pc EXCEPT ![t] = "wg_wait"]
                     /\ last' = Call("wait", t, "suspended")
                ELSE /\ last' = Call("wait", t, "returned")
                     /\ UNCHANGED pc
    /\ UNCHANGED <<lockState, groupState, handleState>>

InRange(n) == (0 - MaxCounter) <= n /\ n <= MaxCounter

NextWG ==
    \/ \E d \in Deltas : InRange(counter + d) /\ add(d)
    \/ InRange(counter - 1) /\ done
    \/ InRange(counter + 1) /\ wg_enter
    \/ InRange(counter - 1) /\ wg_exit
    \/ \E t \in Tasks : wait(t)

SpecWG == Init /\ [][NextWG]_vars

(***************************************************************************)
(* CancellableWaitGroup                                                    *)
(***************************************************************************)

\* What add_async may be given: a coroutine, a future, or anything else.
CORO == 0
NEITHER == 0 - 1

\* Number of positional parameters of _cb_internal(_, task).
CbParams == 2
\* Future.add_done_callback(fn) has the loop call fn(future): one argument.
DoneCallbackArgs == 1

\* The caller makes a future of its own (loop.create_future(), or a task
\* started outside the group).
create_future(h) ==
    /\ hstate[h] = "unused"
    /\ \A g \in Handles : g < h => hstate[g] # "unused"
    /\ hstate' = [hstate EXCEPT ![h] = "pending"]
    /\ last' = CallV("create_future", 0, 0, "returned", h)
    /\ UNCHANGED <<lockState, groupState, cbs, cancel_sent, pc>>

\* Variant of add_async: a future already in _tasks is not refused.
add_async_noDupCheck(x) ==
    /\ x \in Handles => hstate[x] # "unused"
    /\ x = CORO => \E h \in Handles : hstate[h] = "unused"
    /\ IF x \notin Handles /\ x # CORO
         THEN /\ last' = CallV("add_async", 0, x, "TypeError", 0)
              /\ UNCHANGED <<groupState, handleState, pc>>
         ELSE LET task == IF x \in Handles THEN x
                          ELSE CHOOSE h \in Handles :
                                 /\ hstate[h] = "unused"
                                 /\ \A g \in Handles : g < h => hstate[g] # "unused"
              IN /\ hstate' = [hstate EXCEPT ![task] =
                                 IF x = CORO THEN "pending" ELSE @]
                 /\ cbs' = [cbs EXCEPT ![task] =
                                 IF x = CORO THEN "registered" ELSE @]
                 /\ counter' = counter + 1
                 /\ UNCHANGED <<wait_event, pc>>
                 /\ tasks' = tasks \cup {task}
                 /\ last' = CallV("add_async", 0, x, "returned", task)
                 /\ UNCHANGED cancel_sent
    /\ UNCHANGED lockState

\* add_async(x): x is CORO, NEITHER or the handle of an existing future.
add_async(x) ==
    /\ x \in Handles => hstate[x] # "unused"
    /\ x = CORO => \E h \in Handles : hstate[h] = "unused"
    /\ IF x \in Handles /\ x \in tasks
         THEN /\ last' = CallV("add_async", 0, x, "RuntimeError", 0)
              /\ UNCHANGED <<groupState, handleState, pc>>
         ELSE IF x \notin Handles /\ x # CORO
                THEN /\ last' = CallV("add_async", 0, x, "TypeError", 0)
                     /\ UNCHANGED <<groupState, handleState, pc>>
                ELSE LET task == IF x \in Handles THEN x
                                 ELSE CHOOSE h \in Handles :
                                        /\ hstate[h] = "unused"
                                        /\ \A g \in Handles : g < h => hstate[g] # "unused"
                     IN /\ hstate' = [hstate EXCEPT ![task] =
                                        IF x = CORO THEN "pending" ELSE @]
                        /\ cbs' = [cbs EXCEPT ![task] =
                                        IF x = CORO THEN "registered" ELSE @]
                        /\ counter' = counter + 1
                        /\ IF counter + 1 < 0
                             THEN /\ last' = CallV("add_async", 0, x, "RuntimeError", counter + 1)
                                  /\ UNCHANGED <<wait_event, tasks, pc>>
                             ELSE /\ IF counter + 1 = 0 /\ ~wait_event
                                       THEN /\ wait_event' = TRUE
                                            /\ pc' = Wake(pc, "wg_wait", "wg_woken")
                                       ELSE UNCHANGED <<wait_event, pc>>
                                  /\ tasks' = tasks \cup {task}
                                  /\ last' = CallV("add_async", 0, x, "returned", task)
                        /\ UNCHANGED cancel_sent
    /\ UNCHANGED lockState

\* A handle finishes (result, exception or cancellation): the loop is asked
\* to call its done-callbacks.
finish(h) ==
    /\ hstate[h] \in {"pending", "cancelling"}
    /\ hstate' = [hstate EXCEPT ![h] = IF @ = "cancelling" THEN "cancelled" ELSE "done"]
    /\ cbs' = [cbs EXCEPT ![h] = IF @ = "registered" THEN "scheduled" ELSE @]
    /\ last' = CallV("finish", 0, h, "returned", 0)
    /\ UNCHANGED <<lockState, groupState, cancel_sent, pc>>

\* The loop calls _cb_internal with the arguments add_done_callback gives.
\* A call that does not match the parameters raises before the body runs.
cb_internal(h) ==
    /\ cbs[h] = "scheduled"
    /\ cbs' = [cbs EXCEPT ![h] = "called"]
    /\ IF DoneCallbackArgs # CbParams
         THEN /\ last' = CallV("_cb_internal", 0, h, "TypeError", 0)
              /\ UNCHANGED <<groupState, pc>>
         ELSE /\ counter' = counter - 1
              /\ IF counter - 1 < 0
                   THEN /\ last' = CallV("_cb_internal", 0, h, "RuntimeError", counter - 1)
                        /\ UNCHANGED <<wait_event, tasks, pc>>
                   ELSE /\ IF counter - 1 = 0 /\ ~wait_event
                             THEN /\ wait_event' = TRUE
                                  /\ pc' = Wake(pc, "wg_wait", "wg_woken")
                             ELSE UNCHANGED <<wait_event, pc>>
                        /\ tasks' = tasks \ {h}
                        /\ last' = CallV("_cb_internal", 0, h, "returned", 0)
    /\ UNCHANGED <<lockState, hstate, cancel_sent>>

\* Variant of cancel_all: every pending handle is cancelled, tracked or not.
cancel_all_everyHandle ==
    /\ cancel_sent' = [h \in Handles |->
                         IF hstate[h] # "unused" THEN cancel_sent[h] + 1
                         ELSE cancel_sent[h]]
    /\ hstate' = [h \in Handles |->
                    IF hstate[h] = "pending" THEN "cancelling" ELSE hstate[h]]
    /\ last' = CallV("cancel_all", 0, 0, "returned", 0)
    /\ UNCHANGED <<lockState, groupState, cbs, pc>>

\* cancel_all: task.cancel() on every tracked handle.  cancel() on a handle
\* that has finished changes nothing.
cancel_all ==
    /\ cancel_sent' = [h \in Handles |->
                         IF h \in tasks THEN cancel_sent[h] + 1 ELSE cancel_sent[h]]
    /\ hstate' = [h \in Handles |->
                    IF h \in tasks /\ hstate[h] = "pending"
                      THEN "cancelling" ELSE hstate[h]]
    /\ last' = CallV("cancel_all", 0, 0, "returned", 0)
    /\ UNCHANGED <<lockState, groupState, cbs, pc>>

NextCWG ==
    \/ \E h \in Handles : create_future(h)
    \/ \E x \in Handles \cup {CORO, NEITHER} : add_async(x)
    \/ \E h \in Handles : finish(h)
    \/ \E h \in Handles : cb_internal(h)
    \/ (\A h \in tasks : cancel_sent[h] < MaxCancels) /\ cancel_all
    \/ \E t \in Tasks : wait(t)

SpecCWG == Init /\ [][NextCWG]_vars

(***************************************************************************)
(* Properties                                                              *)
(***************************************************************************)

Readers == {t \in Tasks : pc[t] = "reading"}
Writers == {t \in Tasks : pc[t] \in {"w_wait", "w_woken", "writing"}}
Balanced == \A t \in Tasks : pc[t] = "idle"

\* C1: while a task holds the write lock (lock() has returned and unlock()
\* has not been called), no task holds the read lock and readers_count is 0.
C1_NoReaderWhileWriting ==
    (\E w \in Tasks : pc[w] = "writing") =>
        /\ readers_count = 0
        /\ Readers = {}

\* C2: when unlock() is called only by the task that holds the write lock,
\* at most one task is acquiring or holding the write lock.
C2_SingleWriter == Cardinality(Writers) <= 1

\* A second lock() was just refused while a writer holds the lock.
C2_Witness ==
    /\ \E w \in Tasks : pc[w] = "writing"
    /\ last.op = "lock" /\ last.result = "RuntimeError"

\* C3: a wait() call that returns without suspending was made with no work
\* outstanding: the counter is not positive when it returns.
C3_WaitBlocksWhileOutstanding ==
    (last.op = "wait" /\ last.result = "returned") => ~(counter > 0)

\* C4: once every coroutine given to add_async has finished normally and its
\* completion callback has been called, _tasks is empty and the counter is 0.
C4_DrainsOnCompletion ==
    (\A h \in Handles :
        hstate[h] # "unused" => hstate[h] = "done" /\ cbs[h] = "called")
    => (tasks = {} /\ counter = 0)

\* C5: a lock() call made while the writer gate is closed raises, and leaves
\* both gates, readers_count and every task where they were.
C5_SecondWriterRejected ==
    [][(last'.op = "lock" /\ last'.result # "resumed" /\ ~wevent) =>
          (last'.result = "RuntimeError" /\ UNCHANGED <<lockState, pc>>)]_vars

\* A lock() was refused while the first writer still waits for readers.
C5_Witness ==
    /\ \E w \in Tasks : pc[w] = "w_wait"
    /\ readers_count > 0
    /\ last.op = "lock" /\ last.result = "RuntimeError"

\* C6: add(delta) raises exactly when counter + delta < 0 and the error
\* reports counter + delta; done() adds -1, so done() at counter 0 raises
\* reporting -1.
C6_AddRaisesIffNegative ==
    [][last'.op \in {"add", "done"} =>
          /\ (last'.result = "RuntimeError") <=> (counter + last'.arg < 0)
          /\ (last'.result # "RuntimeError") <=> (last'.result = "returned")
          /\ last'.result = "RuntimeError" => last'.value = counter + last'.arg
          /\ last'.op = "done" => last'.arg = 0 - 1
          /\ (last'.op = "done" /\ counter = 0) =>
                (last'.result = "RuntimeError" /\ last'.value = 0 - 1)]_vars

\* One done() too many after matched adds: the error reports -1.
C6_Witness ==
    last.op = "done" /\ last.result = "RuntimeError" /\ last.value = 0 - 1

\* C7: r_unlock() with readers_count 0 raises and leaves readers_count and
\* both gates alone; with readers_count > 0 it returns and takes exactly 1
\* off readers_count.
C7_UnmatchedReadRelease ==
    [][last'.op = "r_unlock" =>
          IF readers_count = 0
            THEN last'.result = "RuntimeError" /\ UNCHANGED lockState
            ELSE last'.result = "returned" /\ readers_count' = readers_count - 1]_vars

\* An r_unlock() was refused while a writer holds the lock.
C7_Witness ==
    /\ last.op = "r_unlock" /\ last.result = "RuntimeError"
    /\ readers_count = 0
    /\ ~wevent

\* C8: when every r_lock has been matched by an r_unlock and no writer is
\* about, readers_count is 0 and a lock() call returns at once.
C8_BalancedReadsFreeTheLock ==
    /\ [](Balanced => readers_count = 0)
    /\ [][(Balanced /\ last'.op = "lock") =>
            (last'.result = "returned" /\ pc'[last'.task] = "writing")]_vars

\* The last reader has just released and nobody holds or waits.
C8_Witness ==
    /\ Balanced
    /\ last.op = "r_unlock" /\ last.result = "returned"
    /\ readers_count = 0 /\ wevent /\ revent

\* C9: an r_lock() call made while the writer gate is closed parks without
\* counting a reader, and a parked reader is released only by the unlock()
\* of the task that holds the write lock.
C9_ReadersWaitBehindWriter ==
    [][\A t \in Tasks :
          /\ (last'.op = "r_lock" /\ last'.task = t /\ last'.result # "resumed"
                /\ ~wevent)
             => (pc'[t] = "r_wait" /\ readers_count' = readers_count)
          /\ (pc[t] = "r_wait" /\ pc'[t] # "r_wait")
             => /\ last'.op = "unlock"
                /\ pc[last'.task] = "writing"
                /\ pc'[t] = "r_woken"
                /\ readers_count' = readers_count]_vars

\* A reader is parked behind a writer that still waits for an earlier reader.
C9_Witness ==
    /\ \E t \in Tasks : pc[t] = "r_wait"
    /\ \E w \in Tasks : pc[w] = "w_wait"
    /\ Readers # {}

\* C10: with the writer gate open an r_lock() call returns at once, whatever
\* the number of readers, and readers_count is the number of read holders.
C10_ReadersShare ==
    /\ [](readers_count = Cardinality(Readers))
    /\ [][(last'.op = "r_lock" /\ last'.result # "resumed" /\ wevent) =>
            (last'.result = "returned" /\ readers_count' = readers_count + 1)]_vars

\* Every task holds the read lock at once.
C10_Witness ==
    /\ Readers = Tasks
    /\ readers_count = NumTasks

\* C11: add_async given a future that is in _tasks raises RuntimeError, and
\* given neither a future nor a coroutine raises TypeError; either way the
\* counter, the gate, _tasks and every handle stay as they were.
C11_BadRegistrationRejected ==
    [][last'.op = "add_async" =>
          /\ (last'.arg \in tasks) =>
                (last'.result = "RuntimeError" /\ UNCHANGED <<groupState, handleState>>)
          /\ (last'.arg = NEITHER) =>
                (last'.result = "TypeError" /\ UNCHANGED <<groupState, handleState>>)]_vars

\* A tracked future was given again and refused.
C11_Witness ==
    /\ last.op = "add_async" /\ last.result = "RuntimeError"
    /\ last.arg \in tasks
    /\ counter = Cardinality(tasks)

\* C12: cancel_all sends one cancel() to each handle that is in _tasks when
\* it is called and to no other handle, and leaves the counter, the gate and
\* _tasks alone; no other step sends a cancel(), so a handle registered
\* later has none from this call.
C12_CancelAllSignalsTracked ==
    [][IF last'.op = "cancel_all"
         THEN /\ \A h \in Handles :
                    cancel_sent'[h] = cancel_sent[h] + (IF h \in tasks THEN 1 ELSE 0)
              /\ UNCHANGED <<groupState, cbs>>
         ELSE UNCHANGED cancel_sent]_vars

\* Two tracked handles were signalled once; a third, registered after the
\* call, was not.
C12_Witness ==
    /\ Cardinality({h \in tasks : cancel_sent[h] = 1}) = 2
    /\ Cardinality({h \in tasks : cancel_sent[h] = 0}) = 1

\* C13: after an add or done call that returned, _wait_event is set exactly
\* when the counter is 0.
C13_GateOpenIffZero ==
    (last.op \in {"add", "done"} /\ last.result = "returned") =>
        (wait_event <=> counter = 0)

\* C14: whatever calls were made, readers_count is not negative and __revent
\* is set exactly when readers_count is 0.
C14_ReaderGate ==
    /\ readers_count >= 0
    /\ revent <=> readers_count = 0

\* A call has just failed while readers hold the lock.
C14_Witness ==
    /\ last.result = "RuntimeError"
    /\ readers_count > 1
    /\ ~revent

\* A handle has been registered: add_async made it from a coroutine, or it
\* is a future that add_async put in _tasks.
Registered(h) == cbs[h] # "none" \/ h \in tasks

\* C15: a handle is in _tasks exactly when it was registered and its
\* completion callback has not been called, and _tasks has as many handles
\* as the counter says.
C15_TrackedSet ==
    /\ \A h \in Handles : h \in tasks <=> (Registered(h) /\ cbs[h] # "called")
    /\ Cardinality(tasks) = counter

\* C16: when a handle that is in _tasks finishes, the loop is asked to call
\* the group's completion callback for it (which is to call done() and take
\* the handle out of _tasks); this covers a future the caller made and gave
\* to add_async.
C16_FutureCompletionAccounted ==
    [][(last'.op = "finish" /\ last'.arg \in tasks) =>
          cbs'[last'.arg] = "scheduled"]_vars

\* C17: a writer whose lock() closed the gate while readers held the lock
\* gets the write lock, given a fair scheduler and given that the readers
\* holding at that moment release.  Stated for a reader (LateReader) that did
\* not hold at that moment and is the only one that may never release.
C17_WriterProgress ==
    \A w \in Tasks :
        (last = Call("lock", w, "suspended") /\ pc[LateReader] # "reading")
            ~> (pc[w] = "writing")

\* C18: unlock() makes every reader parked on the writer gate ready, and
\* under a fair scheduler each of them then returns from r_lock() holding
\* the read lock, whatever the other tasks do.
C18_BroadcastRelease ==
    /\ [][last'.op = "unlock" =>
            \A t \in Tasks : pc[t] = "r_wait" => pc'[t] = "r_woken"]_vars
    /\ \A t \in Tasks : (pc[t] = "r_woken") ~> (pc[t] = "reading")

\* One unlock() has made two parked readers ready.
C18_Witness ==
    /\ last.op = "unlock"
    /\ Cardinality({t \in Tasks : pc[t] = "r_woken"}) >= 2

\* A step that resumes a ready task or releases a held lock.
Progress == \E t \in Tasks : Resume(t) \/ ReadRelease(t) \/ WriteRelease(t)

\* C19: whenever a task is suspended in r_lock() or lock(), some task can
\* resume or release; and with a fair scheduler and holders that release,
\* every suspended task comes to hold the lock it asked for.
C19_NoDeadlock ==
    /\ []((\E t \in Tasks : pc[t] \in Suspended) => ENABLED Progress)
    /\ \A t \in Tasks : (pc[t] \in {"r_wait", "r_woken"}) ~> (pc[t] = "reading")
    /\ \A t \in Tasks : (pc[t] \in {"w_wait", "w_woken"}) ~> (pc[t] = "writing")

\* Two readers are parked behind a writer that holds the lock.
C19_Witness ==
    /\ \E w \in Tasks : pc[w] = "writing"
    /\ Cardinality({t \in Tasks : pc[t] = "r_wait"}) >= 2

\* C20: an add (or done) call that raises leaves the counter and the gate as
\* they were, and the counter is never negative.
C20_FailedAddHasNoEffect ==
    /\ [](counter >= 0)
    /\ [][(last'.op \in {"add", "done", "__enter__", "__exit__"}
             /\ last'.result = "RuntimeError")
          => UNCHANGED <<counter, wait_event>>]_vars

====
